---------------------------- MODULE Spec2Model ----------------------------
(***************************************************************************)
(* A model of OllamaContentGenerator (the strict adapter variant): the     *)
(* message converter, the prompt-based tool-call extractor, the            *)
(* single-shot response adapter and the streaming (SSE) response adapter. *)
(*                                                                         *)
(* Text is a sequence of symbols.  One symbol is one character, except     *)
(* for a few multi-character literals that the code only ever treats as   *)
(* a unit:                                                                 *)
(*   "F"  the fence ```            "J"  the word json after a fence        *)
(*   "T"  the quoted key "tool_call"   "N"  "name"   "A"  "arguments"      *)
(*   "E"  the same key spelled with an escape, "tool\u005fcall"            *)
(*   "q"  one double quote         "s"  one run of white space             *)
(*   "L"  an info string other than json after a fence (js, JSON)          *)
(*   "R"  Tool "<name>" returned:  "I"  [Inline data: <mime>]              *)
(*   "U"  [File: <uri>]            "P"  the tool-protocol prompt block     *)
(* All other symbols ("{", "}", ":", ",", letters) are single characters.  *)
(* A JSON value is held as its compact serialisation (a text without       *)
(* white space outside strings); the absent value (undefined, null) is     *)
(* the empty text.                                                         *)
(***************************************************************************)
EXTENDS Integers, Sequences, FiniteSets, TLC

\* ------------------------------------------------------------------ bounds
\* Longest string value of a tool-call argument.
MaxStrLen == 2

\* Frames the backend writes to one response body.
MaxFrames == 2

\* Turns of a conversation.
MaxTurns == 2

\* Calls of embedContent on one adapter.
MaxEmbeds == 2

\* Characters of a text whose tokens are counted.
MaxChars == 4

\* Frames the backend writes to each of two bodies streamed at the same time.
MaxStreamFrames == 2

\* ------------------------------------------------------------- text helpers
Min(S) == CHOOSE x \in S : \A y \in S : x <= y

Max(S) == CHOOSE x \in S : \A y \in S : x >= y

NoValue == <<>>

Quote(n) == <<"q", n, "q">>

IsStrAtom(c) == c \in {"T", "N", "A", "E"}

RECURSIVE Concat(_)
Concat(ss) == IF ss = <<>> THEN <<>> ELSE Head(ss) \o Concat(Tail(ss))

\* ------------------------------------------------------------------- JSON
\* White space outside string literals carries no meaning for JSON.parse.
RECURSIVE StripFrom(_, _, _)
StripFrom(t, i, inStr) ==
  IF i > Len(t) THEN <<>>
  ELSE IF inStr THEN <<t[i]>> \o StripFrom(t, i + 1, t[i] # "q")
  ELSE IF t[i] = "s" THEN StripFrom(t, i + 1, FALSE)
  ELSE <<t[i]>> \o StripFrom(t, i + 1, t[i] = "q")

\* The index after the string literal that starts at i, 0 when there is none.
StringEnd(t, i) ==
  IF i > Len(t) THEN 0
  ELSE IF IsStrAtom(t[i]) THEN i + 1
  ELSE IF t[i] = "q"
    THEN LET js == {j \in (i + 1)..Len(t) : t[j] = "q"}
         IN IF js = {} THEN 0
            ELSE IF \E m \in (i + 1)..(Min(js) - 1) : IsStrAtom(t[m]) THEN 0
            ELSE Min(js) + 1
  ELSE 0

\* The index after the JSON value that starts at i of a stripped text, 0 on
\* a syntax error.  Values are objects and strings.
RECURSIVE ValueEnd(_, _), MembersEnd(_, _)
ValueEnd(t, i) ==
  IF i > Len(t) THEN 0
  ELSE IF t[i] = "{"
    THEN IF i + 1 <= Len(t) /\ t[i + 1] = "}" THEN i + 2
         ELSE MembersEnd(t, i + 1)
  ELSE StringEnd(t, i)

MembersEnd(t, i) ==
  LET k == StringEnd(t, i)
  IN IF k = 0 \/ k > Len(t) \/ t[k] # ":" THEN 0
     ELSE LET e == ValueEnd(t, k + 1)
          IN IF e = 0 \/ e > Len(t) THEN 0
             ELSE IF t[e] = "," THEN MembersEnd(t, e + 1)
             ELSE IF t[e] = "}" THEN e + 1
             ELSE 0

\* JSON.parse decodes the escapes of a string: the escaped spelling of the
\* key is the key.
Decode(t) == [i \in 1..Len(t) |-> IF t[i] = "E" THEN "T" ELSE t[i]]

\* JSON.parse: the compact value, or a SyntaxError (ok = FALSE).
ParseStripped(t) ==
  IF Len(t) > 0 /\ ValueEnd(t, 1) = Len(t) + 1
    THEN [ok |-> TRUE, v |-> Decode(t)]
    ELSE [ok |-> FALSE, v |-> NoValue]

JSONParse(text) == ParseStripped(StripFrom(text, 1, FALSE))

\* Property access obj[key] on a parsed value: the last member with that key,
\* undefined when there is none or when obj is not an object.
RECURSIVE GetFrom(_, _, _, _)
GetFrom(t, i, key, found) ==
  LET k == StringEnd(t, i)
      e == ValueEnd(t, k + 1)
      nf == IF SubSeq(t, i, k - 1) = key THEN SubSeq(t, k + 1, e - 1) ELSE found
  IN IF t[e] = "," THEN GetFrom(t, e + 1, key, nf) ELSE nf

Get(t, key) ==
  IF Len(t) < 2 \/ t[1] # "{" \/ t[2] = "}" THEN NoValue
  ELSE GetFrom(t, 2, key, NoValue)

\* JavaScript truthiness of a parsed value: undefined and "" are falsy.
Truthy(v) == v # NoValue /\ v # <<"q", "q">>

\* JSON.stringify(value, null, 2): a line break and indentation after "{" and
\* ",", before "}", and a space after ":"; an empty object stays "{}".
RECURSIVE PrettyFrom(_, _, _)
PrettyFrom(t, i, inStr) ==
  IF i > Len(t) THEN <<>>
  ELSE IF inStr THEN <<t[i]>> \o PrettyFrom(t, i + 1, t[i] # "q")
  ELSE IF t[i] = "{"
    THEN IF i + 1 <= Len(t) /\ t[i + 1] = "}"
           THEN <<"{", "}">> \o PrettyFrom(t, i + 2, FALSE)
           ELSE <<"{", "s">> \o PrettyFrom(t, i + 1, FALSE)
  ELSE IF t[i] = "}" THEN <<"s", "}">> \o PrettyFrom(t, i + 1, FALSE)
  ELSE IF t[i] \in {",", ":"} THEN <<t[i], "s">> \o PrettyFrom(t, i + 1, FALSE)
  ELSE <<t[i]>> \o PrettyFrom(t, i + 1, t[i] = "q")

JSONStringify2(v) == PrettyFrom(v, 1, FALSE)

\* ------------------------------------------------------------ tool groups
\* One element of request.config.tools: whether the object has the key
\* functionDeclarations, whether its value is defined, and the declared names
\* (the array functionDeclarations.map(fn => fn.name)).
ToolGroup(key, defined, names) == [key |-> key, defined |-> defined, names |-> names]

\* tools && tools.length > 0 && 'functionDeclarations' in tools[0]
HasTools(tools) == Len(tools) > 0 /\ tools[1].key

\* ------------------------------------------------------------ parseToolCall
NoCall == [name |-> NoValue, args |-> NoValue]

\* \s*```  at position p
FenceAfter(t, p) ==
  \E k \in p..Len(t) : t[k] = "F" /\ \A m \in p..(k - 1) : t[m] = "s"

SkipWs(t, p) ==
  LET S == {k \in p..Len(t) : t[k] # "s"}
  IN IF S = {} THEN Len(t) + 1 ELSE Min(S)

\* The capture group of /```(?:json)?\s*(\{[\s\S]*?\})\s*```/ for a match that
\* starts at the fence at i, empty when there is no match starting there.
CodeBlockFrom(t, i) ==
  LET p == IF i + 1 <= Len(t) /\ t[i + 1] = "J" THEN i + 2 ELSE i + 1
      o == SkipWs(t, p)
      ends == {j \in (o + 1)..Len(t) : t[j] = "}" /\ FenceAfter(t, j + 1)}
  IN IF t[i] = "F" /\ o <= Len(t) /\ t[o] = "{" /\ ends # {}
       THEN SubSeq(t, o, Min(ends))
       ELSE <<>>

\* text.match(...): the leftmost match.
FirstBlock(t, starts) ==
  IF starts = {} THEN <<>> ELSE CodeBlockFrom(t, Min(starts))

CodeBlockMatch(t) ==
  FirstBlock(t, {i \in 1..Len(t) : CodeBlockFrom(t, i) # <<>>})

\* The brace-counting loop: the index after the brace that brings the count
\* back to zero, 0 when the text ends first.
RECURSIVE BraceEnd(_, _, _)
BraceEnd(t, i, braceCount) ==
  IF i > Len(t) THEN 0
  ELSE IF t[i] = "{" THEN BraceEnd(t, i + 1, braceCount + 1)
  ELSE IF t[i] = "}"
    THEN IF braceCount - 1 = 0 THEN i + 1 ELSE BraceEnd(t, i + 1, braceCount - 1)
  ELSE BraceEnd(t, i + 1, braceCount)

\* indexOf('"tool_call"'), lastIndexOf('{', toolCallIndex) and the scan.
BraceScan(t) ==
  LET Ts == {i \in 1..Len(t) : t[i] = "T"}
  IN IF Ts = {} THEN <<>>
     ELSE LET toolCallIndex == Min(Ts)
              Os == {j \in 1..toolCallIndex : t[j] = "{"}
          IN IF Os = {} THEN <<>>
             ELSE LET openBraceIndex == Max(Os)
                      endIndex == BraceEnd(t, openBraceIndex, 0)
                  IN IF endIndex = 0 THEN <<>>
                     ELSE SubSeq(t, openBraceIndex, endIndex - 1)

\* jsonText: the code block when there is one, else the brace scan.
BlockOrScan(codeBlock, t) ==
  IF codeBlock # <<>> THEN codeBlock ELSE BraceScan(t)

ExtractJsonText(t) == BlockOrScan(CodeBlockMatch(t), t)

\* The validation of the tool name against the first tool group.
NameAccepted(toolName, availableTools) ==
  IF Len(availableTools) > 0 /\ availableTools[1].key /\ availableTools[1].defined
    THEN \E i \in 1..Len(availableTools[1].names) :
           toolName = Quote(availableTools[1].names[i])
    ELSE TRUE

\* An extractor that does not require tool_call and its name.
CallNamedUnchecked(tc, toolName, arguments, availableTools) ==
  IF ~NameAccepted(toolName, availableTools) THEN NoCall
  ELSE [name |-> toolName,
        args |-> IF Truthy(arguments) THEN arguments ELSE <<"{", "}">>]

\* Lines 345-374, on parsed.tool_call and its name and arguments.
CallNamed(tc, toolName, arguments, availableTools) ==
  IF ~(Truthy(tc) /\ Truthy(toolName)) THEN NoCall
  ELSE IF ~NameAccepted(toolName, availableTools) THEN NoCall
  ELSE [name |-> toolName,
        args |-> IF Truthy(arguments) THEN arguments ELSE <<"{", "}">>]

CallFrom(tc, availableTools) ==
  CallNamed(tc, Get(tc, <<"N">>), Get(tc, <<"A">>), availableTools)

\* An extractor that takes the first member of the parsed object for the
\* tool call, whatever its key.
CallOfParsedAnyKey(parsed, availableTools) ==
  IF ~parsed.ok THEN NoCall
  ELSE CallFrom(Get(parsed.v, SubSeq(parsed.v, 2, 4)), availableTools)

\* Lines 339-384: a SyntaxError is caught and gives null.
CallOfParsed(parsed, availableTools) ==
  IF ~parsed.ok THEN NoCall
  ELSE CallFrom(Get(parsed.v, <<"T">>), availableTools)

\* Lines 335-337: no jsonText gives null.
CallOfJsonText(jsonText, availableTools) ==
  IF jsonText = <<>> THEN NoCall
  ELSE CallOfParsed(JSONParse(jsonText), availableTools)

parseToolCall(text, availableTools) ==
  CallOfJsonText(ExtractJsonText(text), availableTools)

\* --------------------------------------------------------- message converter
TextPart(t) == [kind |-> "text", text |-> t, name |-> "", args |-> NoValue]

CallPart(n, a) == [kind |-> "functionCall", text |-> <<>>, name |-> n, args |-> a]

ResponsePart(n, t) == [kind |-> "functionResponse", text |-> t, name |-> n, args |-> NoValue]

InlinePart == [kind |-> "inlineData", text |-> <<>>, name |-> "", args |-> NoValue]

FilePart == [kind |-> "fileData", text |-> <<>>, name |-> "", args |-> NoValue]

\* JSON.stringify drops a member whose value is undefined.
ToolCallJson(n, a) ==
  <<"{", "T", ":", "{", "N", ":">> \o Quote(n)
    \o (IF a = NoValue THEN <<>> ELSE <<",", "A", ":">> \o a) \o <<"}", "}">>

\* One iteration of the loop of partsToText.  The text of a functionResponse
\* part is its response.llmContent.
PartText(part) ==
  IF part.kind = "text" THEN part.text
  ELSE IF part.kind = "functionCall"
    THEN <<"s">> \o JSONStringify2(ToolCallJson(part.name, part.args)) \o <<"s">>
  ELSE IF part.kind = "functionResponse"
    THEN <<"s", "R", "s">> \o part.text \o <<"s">>
  ELSE IF part.kind = "inlineData" THEN <<"I">>
  ELSE <<"U">>

partsToText(parts) == Concat([i \in 1..Len(parts) |-> PartText(parts[i])])

Turn(role, parts) == [role |-> role, parts |-> parts]

\* request.contents is a bare string, one turn or a list of turns.
normalizeContents(contents) ==
  IF contents.form = "string" THEN <<Turn("user", <<TextPart(contents.text)>>)>>
  ELSE contents.turns

\* config.systemInstruction is absent, a string, a Content, a Part[] or a Part.
SystemText(si) ==
  IF si.form = "none" THEN <<>>
  ELSE IF si.form \in {"string", "part"} THEN si.text
  ELSE partsToText(si.parts)

\* The rendering of one declared tool: name, description, parameter listing.
ToolDescription(n) == <<n, ":", "d", "s", "p">>

RECURSIVE JoinDescriptions(_)
JoinDescriptions(names) ==
  IF names = <<>> THEN <<>>
  ELSE IF Len(names) = 1 THEN ToolDescription(names[1])
  ELSE ToolDescription(names[1]) \o <<"s">> \o JoinDescriptions(Tail(names))

addToolInstructions(systemInstruction, tools) ==
  IF Len(tools) = 0 THEN systemInstruction
  ELSE IF ~tools[1].key \/ ~tools[1].defined THEN systemInstruction
  ELSE IF Len(tools[1].names) = 0 THEN systemInstruction
  ELSE systemInstruction \o <<"s">> \o JoinDescriptions(tools[1].names) \o <<"s", "P">>

Message(role, content) == [role |-> role, content |-> content]

\* A converter that keeps the turns without text.
RECURSIVE HistoryMessagesKeepingEmpty(_)
HistoryMessagesKeepingEmpty(contents) ==
  IF contents = <<>> THEN <<>>
  ELSE <<Message(IF Head(contents).role = "model" THEN "assistant"
                 ELSE Head(contents).role,
                 partsToText(Head(contents).parts))>>
         \o HistoryMessagesKeepingEmpty(Tail(contents))

RECURSIVE HistoryMessages(_)
HistoryMessages(contents) ==
  IF contents = <<>> THEN <<>>
  ELSE LET c == Head(contents)
           role == IF c.role = "model" THEN "assistant" ELSE c.role
           text == partsToText(c.parts)
       IN (IF text # <<>> THEN <<Message(role, text)>> ELSE <<>>)
            \o HistoryMessages(Tail(contents))

\* A converter that puts the system message after the history.
convertToOllamaMessagesSystemLast(contents, systemText) ==
  HistoryMessages(contents)
    \o (IF systemText # <<>> THEN <<Message("system", systemText)>> ELSE <<>>)

convertToOllamaMessages(contents, systemText) ==
  (IF systemText # <<>> THEN <<Message("system", systemText)>> ELSE <<>>)
    \o HistoryMessages(contents)

\* if (systemText) systemText = this.addToolInstructions(systemText, tools)
WithToolInstructions(systemText, tools) ==
  IF systemText # <<>> THEN addToolInstructions(systemText, tools) ELSE systemText

\* Lines 451-474 and 521-544: the request body's messages.
BuildMessages(req) ==
  convertToOllamaMessages(
    normalizeContents(req.contents),
    WithToolInstructions(SystemText(req.systemInstruction), req.tools))

\* ---------------------------------------------------------- response adapter
NoUsage == [present |-> FALSE, prompt |-> 0, completion |-> 0, total |-> 0]

Usage(p, c, t) == [present |-> TRUE, prompt |-> p, completion |-> c, total |-> t]

\* One GenerateContentResponse: its single candidate's single part, the
\* finishReason ("none" when undefined) and usageMetadata.
NoResponse ==
  [kind |-> "none", text |-> <<>>, call |-> NoCall, finishReason |-> "none",
   usage |-> NoUsage]

TextResponse(text, fin, usage) ==
  [kind |-> "text", text |-> text, call |-> NoCall, finishReason |-> fin,
   usage |-> usage]

CallResponse(call, fin, usage) ==
  [kind |-> "functionCall", text |-> <<>>, call |-> call, finishReason |-> fin,
   usage |-> usage]

\* A mapping that knows no length limit.
MapFinishReasonAlwaysStop(fr) == "STOP"

\* finish_reason === 'length' ? MAX_TOKENS : STOP
MapFinishReason(fr) == IF fr = "length" THEN "MAX_TOKENS" ELSE "STOP"

\* A response whose part carries the backend text next to the call.
ResponseWithBoth(body, toolCall) ==
  [kind |-> IF toolCall # NoCall THEN "functionCall" ELSE "text",
   text |-> body.content, call |-> toolCall,
   finishReason |-> MapFinishReason(body.finish),
   usage |-> Usage(body.usage.prompt, body.usage.completion, body.usage.total)]

\* Lines 410-444, given the toolCall of lines 402-404.
ResponseWith(body, toolCall) ==
  IF toolCall # NoCall
    THEN CallResponse(toolCall, MapFinishReason(body.finish),
                      Usage(body.usage.prompt, body.usage.completion, body.usage.total))
    ELSE TextResponse(body.content, MapFinishReason(body.finish),
                      Usage(body.usage.prompt, body.usage.completion, body.usage.total))

convertToGeminiResponse(body, tools) ==
  ResponseWith(body, IF HasTools(tools) THEN parseToolCall(body.content, tools)
                     ELSE NoCall)

NoError == [kind |-> "none", status |-> 0, body |-> <<>>]

\* An error that leaves out the body text.
HttpErrorWithoutBody(status, body) == [kind |-> "http", status |-> status, body |-> <<>>]

\* new Error(`Ollama API error: ${response.status} ${errorText}`)
HttpError(status, body) == [kind |-> "http", status |-> status, body |-> body]

OtherError(kind) == [kind |-> kind, status |-> 0, body |-> <<>>]

\* ----------------------------------------------------------------- SSE wire
\* One symbol of the response body: the newline, the six characters "data: ",
\* or a payload: a chunk object (delta content and finish_reason), the text
\* [DONE], text that is no JSON, or a line that is no data line (a comment).
Sym(k, content, finish) == [k |-> k, content |-> content, finish |-> finish]

NL == Sym("NL", <<>>, "null")

DataPrefix == Sym("D", <<>>, "null")

ChunkPayload(content, finish) == Sym("json", content, finish)

DonePayload == Sym("done", <<>>, "null")

BadPayload == Sym("bad", <<>>, "null")

CommentLine == Sym("comment", <<>>, "null")

\* The bytes of one frame; the last frame of a body may lack its newline.
FrameBytes(payload, terminated) ==
  (IF payload.k = "comment" THEN <<payload>> ELSE <<DataPrefix, payload>>)
    \o (IF terminated THEN <<NL>> ELSE <<>>)

\* buffer.split('\n')
RECURSIVE Split(_)
Split(b) ==
  LET nls == {i \in 1..Len(b) : b[i].k = "NL"}
  IN IF nls = {} THEN <<b>>
     ELSE <<SubSeq(b, 1, Min(nls) - 1)>> \o Split(SubSeq(b, Min(nls) + 1, Len(b)))

\* line.startsWith('data: ')
StartsWithData(line) == Len(line) >= 1 /\ line[1].k = "D"

\* data === '[DONE]'
IsDone(data) == Len(data) = 1 /\ data[1].k = "done"

\* JSON.parse(data) returns a chunk with choices[0].delta
ChunkParses(data) == Len(data) = 1 /\ data[1].k = "json"

TextEvent(content, finish) ==
  TextResponse(content,
               IF finish = "null" THEN "none" ELSE MapFinishReason(finish),
               NoUsage)

\* tokenCounts is initialised to zeros and never written.
CallEvent(call) == CallResponse(call, "STOP", Usage(0, 0, 0))

\* A line the loop passes over without parsing: no data line, or [DONE].
Skipped(line) ==
  \/ ~StartsWithData(line)
  \/ IsDone(Tail(line))

\* A parse error that ends the for loop over the lines of the chunk.
CatchParseErrorBreaks(ls) == <<>>

\* catch (_e): the error of JSON.parse is logged, and the for loop goes on
\* with the lines after the one that failed.
CatchParseError(ls) == Tail(ls)

\* A generator that starts its accumulated text afresh after the first yield
\* of a frame.
SuspendedStartingAfresh(ls, stage, acc, calls, ev) ==
  [lines |-> ls, stage |-> stage, acc |-> IF stage = "finish" THEN <<>> ELSE acc,
   calls |-> calls, yielded |-> TRUE, ev |-> ev]

\* The generator suspended at a yield.
Suspended(ls, stage, acc, calls, ev) ==
  [lines |-> ls, stage |-> stage, acc |-> acc, calls |-> calls,
   yielded |-> TRUE, ev |-> ev]

\* The body of the for loop over lines, run until the next yield or until the
\* lines are used up.  stage says where in the head line the generator
\* resumes: "line" at its start, "finish" at the finish_reason check (after
\* the text yield), "next" after the functionCall yield.
RECURSIVE RunLines(_, _, _, _, _), AfterParse(_, _, _, _, _)
RunLines(ls, stage, acc, calls, tools) ==
  IF ls = <<>>
    THEN [lines |-> <<>>, stage |-> "line", acc |-> acc, calls |-> calls,
          yielded |-> FALSE, ev |-> NoResponse]
  ELSE IF stage = "next" \/ Skipped(Head(ls))
    THEN RunLines(Tail(ls), "line", acc, calls, tools)
  ELSE IF ~ChunkParses(Tail(Head(ls)))
    THEN RunLines(CatchParseError(ls), "line", acc, calls, tools)
  ELSE IF stage = "line" /\ Head(ls)[2].content # <<>>
    THEN Suspended(ls, "finish", acc \o Head(ls)[2].content, calls,
                   TextEvent(Head(ls)[2].content, Head(ls)[2].finish))
  ELSE IF Head(ls)[2].finish = "null" \/ ~HasTools(tools)
    THEN RunLines(Tail(ls), "line", acc, calls, tools)
  ELSE AfterParse(ls, acc, calls + 1, tools, parseToolCall(acc, tools))

\* Lines 628-647, given the toolCall of lines 624-626.
AfterParse(ls, acc, calls, tools, toolCall) ==
  IF toolCall # NoCall
    THEN Suspended(ls, "next", acc, calls, CallEvent(toolCall))
    ELSE RunLines(Tail(ls), "line", acc, calls, tools)

\* ------------------------------------------------------------------- inputs
GroupA == ToolGroup(TRUE, TRUE, <<"a">>)

GroupEmpty == ToolGroup(TRUE, TRUE, <<>>)

\* { functionDeclarations: undefined }
GroupUndefined == ToolGroup(TRUE, FALSE, <<>>)

\* A tool group of another kind, such as { googleSearch: {} }.
GroupOther == ToolGroup(FALSE, FALSE, <<>>)

\* request.config.tools; an absent list behaves as the empty one.
ToolConfigs ==
  {<<>>, <<GroupA>>, <<GroupEmpty>>, <<GroupUndefined>>, <<GroupOther, GroupA>>}

\* Every tool name some group of the request declares.
DeclaredNames(tools) ==
  UNION {{Quote(tools[g].names[i]) : i \in 1..Len(tools[g].names)} :
           g \in {h \in 1..Len(tools) : tools[h].key /\ tools[h].defined}}

NoInstruction == [form |-> "none", text |-> <<>>, parts |-> <<>>]

StringInstruction(t) == [form |-> "string", text |-> t, parts |-> <<>>]

ContentInstruction(parts) == [form |-> "content", text |-> <<>>, parts |-> parts]

StringContents(t) == [form |-> "string", text |-> t, turns |-> <<>>]

ListContents(turns) == [form |-> "list", text |-> <<>>, turns |-> turns]

Request(si, contents, tools) ==
  [systemInstruction |-> si, contents |-> contents, tools |-> tools]

NoRequest == Request(NoInstruction, ListContents(<<>>), <<>>)

\* Texts a model can answer with.
CallText(n, a) == ToolCallJson(n, a)

Fenced(t) == <<"F", "J", "s">> \o t \o <<"s", "F">>

ModelTexts ==
  {<<"x">>,
   CallText("a", NoValue),
   CallText("g", NoValue),
   CallText("a", <<"{", "q", "k", "q", ":", "{", "}", "}">>),
   Fenced(CallText("a", <<"{", "q", "k", "q", ":", "q", "x", "q", "}">>)),
   Fenced(CallText("g", NoValue)),
   <<"x", "s">> \o CallText("a", NoValue) \o <<"s", "x">>,
   <<"{", "T", ":", "{", "N", ":", "q", "a", "q", "}">>,
   <<"{", "T", ":", "{", "}", "}">>,
   Fenced(<<"{", "q", "k", "q", ":", "q", "x", "q", "}">>)
     \o <<"s">> \o CallText("a", NoValue)}

\* choices[0].finish_reason of a completion
FinishReasons == {"stop", "length", "content_filter"}

\* The body of a single-shot completion.
Completion(content, finish) ==
  [content |-> content, finish |-> finish,
   usage |-> [prompt |-> 3, completion |-> 2, total |-> 5]]

\* The two halves of a tool call that arrives in two deltas.
CallHead == <<"{", "T", ":", "{">>

CallTail == <<"N", ":", "q", "a", "q", "}", "}">>

\* Payloads the backend writes to a streamed body.
StreamPayloads ==
  {ChunkPayload(<<"x">>, "null"),
   ChunkPayload(CallHead, "null"),
   ChunkPayload(CallTail, "stop"),
   ChunkPayload(CallText("a", NoValue), "stop"),
   ChunkPayload(<<>>, "stop"),
   ChunkPayload(<<"x">>, "length"),
   DonePayload, BadPayload, CommentLine}

\* Characters of a string value of an argument; "F" is a fence inside it.
Chars == {"x", "{", "}", "F"}

StrValue(str) == <<"q">> \o str \o <<"q">>

Obj(k, v) == <<"{">> \o Quote(k) \o <<":">> \o v \o <<"}">>

\* Argument mappings of a functionCall part: absent, empty, a string value,
\* a nested object.
ArgMappings ==
  LET strs == UNION {[1..n -> Chars] : n \in 0..MaxStrLen}
  IN {NoValue, <<"{", "}">>}
       \cup {Obj("k", StrValue(str)) : str \in strs}
       \cup {Obj("k", Obj("k", StrValue(str))) : str \in strs}

GroupAB == ToolGroup(TRUE, TRUE, <<"a", "b">>)

\* Parts of a turn.
PartLists ==
  {<<>>, <<TextPart(<<"x">>)>>, <<TextPart(<<>>)>>,
   <<CallPart("a", NoValue)>>, <<ResponsePart("a", <<"x">>)>>,
   <<TextPart(<<"x">>), InlinePart>>, <<FilePart>>}

Turns == {Turn(role, parts) : role \in {"user", "model"}, parts \in PartLists}

\* Conversations of up to MaxTurns turns.
Conversations == UNION {[1..n -> Turns] : n \in 0..MaxTurns}

SystemInstructions ==
  {NoInstruction, StringInstruction(<<>>), StringInstruction(<<"y">>),
   ContentInstruction(<<>>), ContentInstruction(<<TextPart(<<"y">>)>>)}

\* Requests of the adapter run.
RunRequests ==
  {Request(StringInstruction(<<"y">>), StringContents(<<"x">>), tools) :
     tools \in ToolConfigs}

\* -------------------------------------------------------------------- state
VARIABLES
  pc,              \* idle, fetch, created, sfetch, reading, yielded, done
  exit,            \* how the operation ended: none, value, throw, eof, return
  request,         \* the GenerateContentParameters of the operation
  messages,        \* the messages of the request body sent to the backend
  aborted,         \* request.config.abortSignal.aborted
  answer,          \* the status, the body text and the finish_reason of the
                   \* backend's response
  wire,            \* bytes of the response body not yet read
  written,         \* the payloads of the frames the backend has written
  closed,          \* the backend has ended the body
  backendText,     \* the content the backend has generated
  buffer,          \* the partial last line
  lines,           \* lines of the current network chunk, from the current one
  stage,           \* where in the current line the generator is suspended
  accumulatedText, \* the text of all deltas so far
  parseCalls,      \* invocations of parseToolCall
  out,             \* the partial responses yielded to the consumer
  response,        \* the value generateContent resolved to
  error,           \* the error the operation threw
  readerAcquired,  \* response.body.getReader() has been called
  releases,        \* calls of reader.releaseLock()
  atAbort,         \* partial responses yielded when the signal fired
  rt,              \* the round trip of a functionCall part
  embed,           \* the calls of embedContent and their outcome
  count,           \* the last two calls of countTokens
  adapter,         \* the fields of the adapter: baseUrl and model
  streams,         \* the generators of two streaming requests under way at
                   \* the same time, each with its response body
  second,          \* the same request on the second variant of the adapter
  tavily           \* one invocation of the tavily_search tool

reqVars == <<request, messages>>

netVars == <<answer, wire, written, closed, backendText>>

genVars == <<buffer, lines, stage, accumulatedText, parseCalls, out>>

resVars == <<readerAcquired, releases>>

\* The state of the operations that are neither generation nor embedding.
opVars == <<count, adapter, streams, second, tavily>>

vars ==
  <<pc, exit, request, messages, aborted, answer, wire, written, closed,
    backendText, buffer, lines, stage, accumulatedText, parseCalls, out,
    response, error, readerAcquired, releases, atAbort, rt, embed, opVars>>

NoAnswer == [status |-> 0, body |-> <<>>, finish |-> "none"]

NoCount == [called |-> FALSE, contents |-> <<>>, totalTokens |-> 0]

\* A generator of generateContentStreamInternal that has not started, with
\* the locals of lines 575-577 and the body of its response.
NoStream ==
  [pc |-> "idle", tools |-> <<>>, sent |-> <<>>, wire |-> <<>>, buffer |-> <<>>,
   lines |-> <<>>, stage |-> "line", accumulatedText |-> <<>>, parseCalls |-> 0,
   out |-> <<>>]

\* A ToolResult of tavily_search, named by its returnDisplay ("none" while
\* execute has not returned, "raised" if it threw); error says whether it
\* has an error member, whose type is then EXECUTION_FAILED.
ToolResult(display, hasError) == [display |-> display, error |-> hasError]

NoEmbed == [calls |-> 0, result |-> "none", fetched |-> FALSE]

NoRoundTrip == [step |-> "none", part |-> TextPart(<<>>), tools |-> <<>>,
                flat |-> <<>>, got |-> NoCall]

\* A newly constructed adapter: no operation has started.
Idle ==
  /\ pc = "idle"
  /\ exit = "none"
  /\ request = NoRequest
  /\ messages = <<>>
  /\ aborted = FALSE
  /\ answer = NoAnswer
  /\ wire = <<>>
  /\ written = <<>>
  /\ closed = FALSE
  /\ backendText = <<>>
  /\ buffer = <<>>
  /\ lines = <<>>
  /\ stage = "line"
  /\ accumulatedText = <<>>
  /\ parseCalls = 0
  /\ out = <<>>
  /\ response = NoResponse
  /\ error = NoError
  /\ readerAcquired = FALSE
  /\ releases = 0
  /\ atAbort = 0
  /\ embed = NoEmbed
  /\ count = [last |-> NoCount, prev |-> NoCount]
  /\ adapter = [baseUrl |-> "http://localhost:11434", model |-> "m"]
  /\ streams = [i \in 1..2 |-> NoStream]
  /\ tavily = [pc |-> "idle", apiKey |-> FALSE, aborted |-> FALSE,
               fetches |-> 0, request |-> <<>>, result |-> ToolResult("none", FALSE)]
  /\ second = [pc |-> "idle", mode |-> "none", request |-> NoRequest,
               messages |-> <<>>, exit |-> "none", error |-> NoError]

Init == Idle /\ rt = NoRoundTrip

\* response.ok
Ok(status) == status \in 200..299

\* HTTP statuses a backend answers with.
Statuses == {200, 404, 500}

\* ------------------------------------------------------------- single-shot
\* generateContent up to the await of fetch.
GenerateContent(req) ==
  /\ pc = "idle"
  /\ pc' = "fetch"
  /\ request' = req
  /\ messages' = BuildMessages(req)
  /\ UNCHANGED <<exit, aborted, netVars, genVars, response, error, resVars,
                 atAbort, rt, embed, opVars>>

\* fetch resolved: a response that is not ok throws with its status and body
\* text, an ok one is parsed as a completion and converted.
SingleResponds(status, text, finish) ==
  /\ pc = "fetch"
  /\ ~aborted
  /\ pc' = "done"
  /\ answer' = [status |-> status, body |-> text,
                 finish |-> IF Ok(status) THEN finish ELSE "none"]
  /\ IF Ok(status)
       THEN /\ exit' = "value"
            /\ response' = convertToGeminiResponse(Completion(text, finish),
                                                   request.tools)
            /\ parseCalls' = IF HasTools(request.tools) THEN parseCalls + 1
                             ELSE parseCalls
            /\ backendText' = text
            /\ error' = error
       ELSE /\ exit' = "throw"
            /\ error' = HttpError(status, text)
            /\ UNCHANGED <<response, parseCalls, backendText>>
  /\ UNCHANGED <<reqVars, aborted, wire, written, closed, buffer, lines, stage,
                 accumulatedText, out, resVars, atAbort, rt, embed, opVars>>

\* fetch rejected: by the abort signal, or by the network.
FetchRejects ==
  /\ pc \in {"fetch", "sfetch"}
  /\ pc' = "done"
  /\ exit' = "throw"
  /\ error' = OtherError(IF aborted THEN "abort" ELSE "network")
  /\ UNCHANGED <<reqVars, aborted, netVars, genVars, response, resVars,
                 atAbort, rt, embed, opVars>>

\* ---------------------------------------------------------------- streaming
\* generateContentStream returns the generator; its body has not started.
GenerateContentStream(req) ==
  /\ pc = "idle"
  /\ pc' = "created"
  /\ request' = req
  /\ UNCHANGED <<exit, messages, aborted, netVars, genVars, response, error,
                 resVars, atAbort, rt, embed, opVars>>

\* The generator runs from where it is suspended to its next yield, or to the
\* next await of reader.read().
SuspendAt(r) ==
  /\ lines' = r.lines
  /\ stage' = r.stage
  /\ accumulatedText' = r.acc
  /\ parseCalls' = r.calls
  /\ out' = IF r.yielded THEN Append(out, r.ev) ELSE out
  /\ pc' = IF r.yielded THEN "yielded" ELSE "reading"

Resume(ls, st) ==
  SuspendAt(RunLines(ls, st, accumulatedText, parseCalls, request.tools))

\* The consumer's first next(): the body runs up to the await of fetch.
FirstPull ==
  /\ pc = "created"
  /\ pc' = "sfetch"
  /\ messages' = BuildMessages(request)
  /\ UNCHANGED <<exit, request, aborted, netVars, genVars, response, error,
                 resVars, atAbort, rt, embed, opVars>>

\* A later next(): the generator resumes after its yield.
Pull ==
  /\ pc = "yielded"
  /\ Resume(lines, stage)
  /\ UNCHANGED <<exit, reqVars, aborted, netVars, buffer, response, error,
                 resVars, atAbort, rt, embed, opVars>>

\* fetch resolved: a response that is not ok throws with its status and body
\* text (read with response.text()), one without a body throws, otherwise the
\* reader is acquired and the loop awaits the first read of the body.
StreamResponds(status, text, hasBody) ==
  /\ pc = "sfetch"
  /\ ~aborted
  /\ answer' = [status |-> status, body |-> IF Ok(status) THEN <<>> ELSE text,
                 finish |-> "none"]
  /\ IF ~Ok(status)
       THEN /\ pc' = "done"
            /\ exit' = "throw"
            /\ error' = HttpError(status, text)
            /\ UNCHANGED readerAcquired
       ELSE IF ~hasBody
         THEN /\ pc' = "done"
              /\ exit' = "throw"
              /\ error' = OtherError("nobody")
              /\ UNCHANGED readerAcquired
         ELSE /\ pc' = "reading"
              /\ readerAcquired' = TRUE
              /\ UNCHANGED <<exit, error>>
  /\ UNCHANGED <<reqVars, aborted, wire, written, closed, backendText, genVars,
                 response, releases, atAbort, rt, embed, opVars>>

\* The backend writes one more frame to the body; a frame without its
\* newline is the last thing it writes.
BackendWrites(payload, terminated) ==
  /\ pc \in {"reading", "yielded"}
  /\ ~closed
  /\ ~aborted
  /\ Len(written) < MaxFrames
  /\ written' = Append(written, payload)
  /\ wire' = wire \o FrameBytes(payload, terminated)
  /\ closed' = ~terminated
  /\ backendText' = backendText \o payload.content
  /\ UNCHANGED <<pc, exit, reqVars, aborted, answer, genVars, response, error,
                 resVars, atAbort, rt, embed, opVars>>

\* The backend ends the body.
BackendCloses ==
  /\ pc \in {"reading", "yielded"}
  /\ ~closed
  /\ ~aborted
  /\ closed' = TRUE
  /\ UNCHANGED <<pc, exit, reqVars, aborted, answer, wire, written,
                 backendText, genVars, response, error, resVars, atAbort, rt, embed, opVars>>

\* A loop that forgets the partial last line of a chunk.
TakeLinesDroppingPartial(all) ==
  /\ buffer' = <<>>
  /\ Resume(SubSeq(all, 1, Len(all) - 1), "line")

\* buffer = lines.pop() || '', then the for loop over the lines left.
TakeLines(all) ==
  /\ buffer' = all[Len(all)]
  /\ Resume(SubSeq(all, 1, Len(all) - 1), "line")

\* reader.read() resolves with the next n bytes of the body.
ReadChunk(n) ==
  /\ pc = "reading"
  /\ ~aborted
  /\ n \in 1..Len(wire)
  /\ TakeLines(Split(buffer \o SubSeq(wire, 1, n)))
  /\ wire' = SubSeq(wire, n + 1, Len(wire))
  /\ UNCHANGED <<exit, reqVars, aborted, answer, written, closed, backendText,
                 response, error, resVars, atAbort, rt, embed, opVars>>

\* A loop that goes on awaiting reads after done.
ReadDoneKeepsWaiting ==
  /\ pc = "reading"
  /\ ~aborted
  /\ closed
  /\ wire = <<>>
  /\ UNCHANGED vars

\* reader.read() resolves with done: break, then finally.
ReadDone ==
  /\ pc = "reading"
  /\ ~aborted
  /\ closed
  /\ wire = <<>>
  /\ pc' = "done"
  /\ exit' = "eof"
  /\ releases' = releases + 1
  /\ UNCHANGED <<reqVars, aborted, netVars, genVars, response, error,
                 readerAcquired, atAbort, rt, embed, opVars>>

\* reader.read() rejects (the transport failed, or the signal aborted the
\* body): the error leaves the loop through finally.
ReadRejects ==
  /\ pc = "reading"
  /\ pc' = "done"
  /\ exit' = "throw"
  /\ error' = OtherError(IF aborted THEN "abort" ELSE "network")
  /\ releases' = releases + 1
  /\ UNCHANGED <<reqVars, aborted, netVars, genVars, response,
                 readerAcquired, atAbort, rt, embed, opVars>>

\* An early end of the iteration that runs no finally block.
ReturnWithoutFinally ==
  /\ pc \in {"created", "yielded"}
  /\ pc' = "done"
  /\ exit' = "return"
  /\ UNCHANGED <<reqVars, aborted, netVars, genVars, response, error,
                 resVars, atAbort, rt, embed, opVars>>

\* The consumer ends the iteration early (return(), as a break out of
\* for-await does): from a yield inside try, finally runs; a generator that
\* has not started just completes.
Return ==
  /\ pc \in {"created", "yielded"}
  /\ pc' = "done"
  /\ exit' = "return"
  /\ releases' = IF pc = "yielded" THEN releases + 1 ELSE releases
  /\ UNCHANGED <<reqVars, aborted, netVars, genVars, response, error,
                 readerAcquired, atAbort, rt, embed, opVars>>

\* The caller fires the abort signal.
Abort ==
  /\ pc \notin {"idle", "done"}
  /\ ~aborted
  /\ aborted' = TRUE
  /\ atAbort' = Len(out)
  /\ UNCHANGED <<pc, exit, reqVars, netVars, genVars, response, error,
                 resVars, rt, embed, opVars>>

Next ==
  \/ \E req \in RunRequests : GenerateContent(req)
  \/ \E st \in Statuses, t \in ModelTexts, f \in FinishReasons :
       SingleResponds(st, t, f)
  \/ FetchRejects
  \/ \E req \in RunRequests : GenerateContentStream(req)
  \/ FirstPull
  \/ Pull
  \/ \E st \in Statuses, t \in {<<>>, <<"x">>}, b \in BOOLEAN :
       StreamResponds(st, t, b)
  \/ \E p \in StreamPayloads, term \in BOOLEAN : BackendWrites(p, term)
  \/ BackendCloses
  \/ \E n \in 1..(3 * MaxFrames) : ReadChunk(n)
  \/ ReadDone
  \/ ReadRejects
  \/ Return
  \/ Abort

Spec == Init /\ [][Next]_vars

\* The stream with a consumer that keeps pulling (the generator does not stay
\* suspended at a yield for ever), a runtime that settles every pending read
\* (with data, with done, or with the rejection the abort signal causes) and
\* a backend that ends the body it has written.
NextLive ==
  \/ GenerateContentStream(Request(StringInstruction(<<"y">>),
                                   StringContents(<<"x">>), <<GroupA>>))
  \/ FirstPull
  \/ Pull
  \/ \E st \in {200, 500} : StreamResponds(st, <<>>, TRUE)
  \/ \E p \in {ChunkPayload(<<"x">>, "null"),
                ChunkPayload(CallText("a", NoValue), "stop")},
        term \in BOOLEAN : BackendWrites(p, term)
  \/ BackendCloses
  \/ \E n \in 1..(3 * MaxFrames) : ReadChunk(n)
  \/ ReadDone
  \/ ReadRejects
  \/ Abort

SpecLive ==
  /\ Init
  /\ [][NextLive]_vars
  /\ []<>(pc # "yielded")
  /\ WF_vars(\E n \in 1..(3 * MaxFrames) : ReadChunk(n))
  /\ WF_vars(ReadDone)
  /\ WF_vars(BackendCloses)
  /\ WF_vars(aborted /\ ReadRejects)

\* ---------------------------------------------------------------- embedding
\* An embedContent that asks the backend before it fails.
EmbedContentFetching(input) ==
  /\ embed.calls < MaxEmbeds
  /\ embed' = [calls |-> embed.calls + 1, result |-> "throw", fetched |-> TRUE]
  /\ UNCHANGED <<pc, exit, reqVars, aborted, netVars, genVars, response,
                 error, resVars, atAbort, rt, opVars>>

\* embedContent: the body is one throw statement; the promise rejects without
\* a fetch, whatever other operation of the adapter is under way or over.
EmbedContent(input) ==
  /\ embed.calls < MaxEmbeds
  /\ embed' = [calls |-> embed.calls + 1, result |-> "throw", fetched |-> FALSE]
  /\ UNCHANGED <<pc, exit, reqVars, aborted, netVars, genVars, response,
                 error, resVars, atAbort, rt, opVars>>

\* embedContent before, between and after the steps of a request, up to the
\* point where the body of a streamed response is read.
NextEmbed ==
  \/ \E req \in RunRequests : GenerateContent(req)
  \/ \E st \in Statuses, t \in ModelTexts, f \in FinishReasons :
       SingleResponds(st, t, f)
  \/ FetchRejects
  \/ \E req \in RunRequests : GenerateContentStream(req)
  \/ FirstPull
  \/ \E st \in Statuses, t \in {<<>>, <<"x">>}, b \in BOOLEAN :
       StreamResponds(st, t, b)
  \/ ReadRejects
  \/ Return
  \/ Abort
  \/ \E input \in {<<>>, <<"x">>} : EmbedContent(input)

SpecEmbed == Init /\ [][NextEmbed]_vars

\* ------------------------------------------------------------- countTokens
\* String.length of one symbol, in UTF-16 code units: "W" is a character
\* outside the basic plane (an emoji), held as a surrogate pair; "I" is
\* [Inline data: image/png] and "U" is [File: gs://f].
CodeUnits(c) ==
  IF c = "W" THEN 2
  ELSE IF c = "I" THEN 24
  ELSE IF c = "U" THEN 14
  ELSE 1

\* text.length
RECURSIVE TextLength(_)
TextLength(t) == IF t = <<>> THEN 0 ELSE CodeUnits(Head(t)) + TextLength(Tail(t))

\* Math.ceil(n / 4)
Ceil4(n) == (n + 3) \div 4

\* allParts = contents.flatMap((c) => c.parts || []), flattened by partsToText
\* and measured.
countTokens(contents) ==
  LET cs == normalizeContents(contents)
      allParts == Concat([i \in 1..Len(cs) |-> cs[i].parts])
  IN Ceil4(TextLength(partsToText(allParts)))

\* request.contents of countTokens: a bare string of up to MaxChars characters
\* or of forty characters, and conversations of two turns with several parts.
CountContents ==
  {StringContents(t) :
     t \in UNION {[1..n -> {"x", "W"}] : n \in 0..MaxChars}
             \cup {[i \in 1..40 |-> "x"]}}
    \cup {ListContents(<<Turn("user", <<TextPart(t), InlinePart>>),
                         Turn("model", ps)>>) :
            t \in {<<>>, <<"x">>, <<"x", "x", "x">>},
            ps \in {<<>>, <<TextPart(<<"x", "x">>)>>, <<FilePart>>,
                    <<TextPart(<<"x">>), TextPart(<<"x", "x", "x", "x">>)>>}}

\* countTokens(request): the estimate for request.contents; it reads no field
\* of the adapter and calls no backend.
CountTokens(contents) ==
  /\ count' = [last |-> [called |-> TRUE, contents |-> contents,
                         totalTokens |-> countTokens(contents)],
               prev |-> count.last]
  /\ UNCHANGED <<pc, exit, reqVars, aborted, netVars, genVars, response,
                 error, resVars, atAbort, rt, embed, adapter, streams, second, tavily>>

NextCount == \E contents \in CountContents : CountTokens(contents)

SpecCount == Init /\ [][NextCount]_vars

\* ------------------------------------------------------ concurrent streams
\* Two calls of generateContentStream on one adapter.  Each call creates its
\* own generator object; the steps of the two interleave at every await and
\* every yield.  Stream i starts: the request is sent with the adapter's
\* fields, the response is ok and the reader is acquired.
StreamStarts(i, tools) ==
  /\ streams[i].pc = "idle"
  /\ streams' = [streams EXCEPT ![i].pc = "reading", ![i].tools = tools]
  /\ UNCHANGED <<pc, exit, reqVars, aborted, netVars, genVars, response,
                 error, resVars, atAbort, rt, embed, count, adapter, second, tavily>>

\* The backend of stream i writes one more frame to its body.
StreamWrites(i, payload) ==
  /\ streams[i].pc \in {"reading", "yielded"}
  /\ Len(SelectSeq(streams[i].sent, LAMBDA b : b.k = "NL")) < MaxStreamFrames
  /\ streams' = [streams EXCEPT
                   ![i].sent = @ \o FrameBytes(payload, TRUE),
                   ![i].wire = @ \o FrameBytes(payload, TRUE)]
  /\ UNCHANGED <<pc, exit, reqVars, aborted, netVars, genVars, response,
                 error, resVars, atAbort, rt, embed, count, adapter, second, tavily>>

\* A generator whose line buffer is a field of the adapter, shared by the
\* two streams (held with stream 1).
StreamReadsSharedBuffer(i, n) ==
  /\ streams[i].pc = "reading"
  /\ n \in 1..Len(streams[i].wire)
  /\ LET all == Split(streams[1].buffer \o SubSeq(streams[i].wire, 1, n))
         g == streams[i]
         r == RunLines(SubSeq(all, 1, Len(all) - 1), "line",
                       g.accumulatedText, g.parseCalls, g.tools)
         s1 == [streams EXCEPT ![1].buffer = all[Len(all)]]
     IN streams' = [s1 EXCEPT
          ![i].pc = IF r.yielded THEN "yielded" ELSE "reading",
          ![i].wire = SubSeq(g.wire, n + 1, Len(g.wire)),
          ![i].lines = r.lines,
          ![i].stage = r.stage,
          ![i].accumulatedText = r.acc,
          ![i].parseCalls = r.calls,
          ![i].out = IF r.yielded THEN Append(@, r.ev) ELSE @]
  /\ UNCHANGED <<pc, exit, reqVars, aborted, netVars, genVars, response,
                 error, resVars, atAbort, rt, embed, count, adapter, second, tavily>>

\* reader.read() of stream i resolves with the next n bytes of its body.
StreamReads(i, n) ==
  /\ streams[i].pc = "reading"
  /\ n \in 1..Len(streams[i].wire)
  /\ LET all == Split(streams[i].buffer \o SubSeq(streams[i].wire, 1, n))
         s1 == [streams EXCEPT ![i].wire = SubSeq(@, n + 1, Len(@))]
     IN streams' = [s1 EXCEPT ![i] =
          LET g == s1[i]
              r == RunLines(SubSeq(all, 1, Len(all) - 1), "line",
                            g.accumulatedText, g.parseCalls, g.tools)
          IN [g EXCEPT !.pc = IF r.yielded THEN "yielded" ELSE "reading",
                       !.buffer = all[Len(all)],
                       !.lines = r.lines,
                       !.stage = r.stage,
                       !.accumulatedText = r.acc,
                       !.parseCalls = r.calls,
                       !.out = IF r.yielded THEN Append(@, r.ev) ELSE @]]
  /\ UNCHANGED <<pc, exit, reqVars, aborted, netVars, genVars, response,
                 error, resVars, atAbort, rt, embed, count, adapter, second, tavily>>

\* The consumer of stream i pulls: the generator resumes after its yield.
StreamPull(i) ==
  /\ streams[i].pc = "yielded"
  /\ LET g == streams[i]
         r == RunLines(g.lines, g.stage, g.accumulatedText, g.parseCalls,
                       g.tools)
     IN streams' = [streams EXCEPT ![i] =
          [g EXCEPT !.pc = IF r.yielded THEN "yielded" ELSE "reading",
                    !.lines = r.lines,
                    !.stage = r.stage,
                    !.accumulatedText = r.acc,
                    !.parseCalls = r.calls,
                    !.out = IF r.yielded THEN Append(@, r.ev) ELSE @]]
  /\ UNCHANGED <<pc, exit, reqVars, aborted, netVars, genVars, response,
                 error, resVars, atAbort, rt, embed, count, adapter, second, tavily>>

\* The body of stream i ends and reader.read() resolves with done.
StreamEnds(i) ==
  /\ streams[i].pc = "reading"
  /\ streams[i].wire = <<>>
  /\ streams' = [streams EXCEPT ![i].pc = "done"]
  /\ UNCHANGED <<pc, exit, reqVars, aborted, netVars, genVars, response,
                 error, resVars, atAbort, rt, embed, count, adapter, second, tavily>>

NextStreams ==
  \E i \in 1..2 :
    \/ StreamStarts(i, IF i = 1 THEN <<>> ELSE <<GroupA>>)
    \/ \E p \in {ChunkPayload(CallHead, "null"), ChunkPayload(CallTail, "stop")} :
         StreamWrites(i, p)
    \/ \E n \in 1..(3 * MaxStreamFrames) : StreamReads(i, n)
    \/ StreamPull(i)
    \/ StreamEnds(i)

SpecStreams == Init /\ [][NextStreams]_vars

\* -------------------------------------------------------- the second variant
\* generateContent of the second variant (lines 1047-1108).  Line 1073 reads
\* _request, a name no scope declares (the parameter is request): evaluating
\* it throws a ReferenceError before the messages are built and before fetch.
SecondGenerateContent(req) ==
  /\ pc = "idle"
  /\ second.pc = "idle"
  /\ second' = [pc |-> "done", mode |-> "single", request |-> req,
                messages |-> <<>>, exit |-> "throw",
                error |-> OtherError("reference")]
  /\ UNCHANGED <<pc, exit, reqVars, aborted, netVars, genVars, response,
                 error, resVars, atAbort, rt, embed, count, adapter, streams, tavily>>

\* generateContentStream of the second variant (lines 1110-1115).  Line 1114
\* reads userPromptId, a name no scope declares (the parameter is
\* _userPromptId): the promise rejects with a ReferenceError and no generator
\* is returned.
SecondGenerateContentStream(req) ==
  /\ pc = "idle"
  /\ second.pc = "idle"
  /\ second' = [pc |-> "done", mode |-> "stream", request |-> req,
                messages |-> <<>>, exit |-> "throw",
                error |-> OtherError("reference")]
  /\ UNCHANGED <<pc, exit, reqVars, aborted, netVars, genVars, response,
                 error, resVars, atAbort, rt, embed, count, adapter, streams, tavily>>

\* One request without declared tools given to both variants, constructed
\* with the same base URL and model: second, then the strict one.
NextVariants ==
  \/ \E si \in {NoInstruction, StringInstruction(<<"y">>)},
        c \in {StringContents(<<"x">>), ListContents(<<>>)},
        tools \in {<<>>, <<GroupEmpty>>, <<GroupUndefined>>, <<GroupOther>>} :
       \/ SecondGenerateContent(Request(si, c, tools))
       \/ SecondGenerateContentStream(Request(si, c, tools))
  \/ second.mode = "single" /\ GenerateContent(second.request)
  \/ \E st \in Statuses, t \in ModelTexts, f \in FinishReasons :
       SingleResponds(st, t, f)
  \/ FetchRejects
  \/ second.mode = "stream" /\ GenerateContentStream(second.request)
  \/ FirstPull
  \/ \E st \in Statuses, t \in {<<>>, <<"x">>}, b \in BOOLEAN :
       StreamResponds(st, t, b)
  \/ \E p \in {ChunkPayload(<<"x">>, "stop")} : BackendWrites(p, TRUE)
  \/ BackendCloses
  \/ \E n \in 1..3 : ReadChunk(n)
  \/ Pull
  \/ ReadDone

SpecVariants == Init /\ [][NextVariants]_vars

\* ----------------------------------------------------------- tavily_search
\* The catch block of execute without the look at the signal.
CatchResultIgnoringSignal(signalAborted) == ToolResult("Search error", TRUE)

\* catch (error): cancelled if the signal is aborted, else an error result
\* with the message of the error (getErrorMessage, of ../utils/errors.js,
\* returns the message of any value and does not throw).
CatchResult(signalAborted) ==
  IF signalAborted THEN ToolResult("Search cancelled", FALSE)
  ELSE ToolResult("Search error", TRUE)

\* execute(signal) up to the await of fetch: without TAVILY_API_KEY (unset or
\* empty) it returns at once; otherwise it builds the search request, with
\* search_depth defaulting to basic, include_answer true unless false was
\* given, max_results (0 stands for an absent one, falsy alike) defaulting
\* to 5 and clamped to 1..20, and calls fetch.
Execute(apiKey, signalAborted, depth, includeAnswer, maxResults) ==
  /\ tavily.pc = "idle"
  /\ tavily' =
       IF ~apiKey
         THEN [tavily EXCEPT !.pc = "done", !.aborted = signalAborted,
                 !.result = ToolResult("Tavily API key not configured", TRUE)]
         ELSE [tavily EXCEPT !.pc = "fetch", !.apiKey = TRUE,
                 !.aborted = signalAborted, !.fetches = @ + 1,
                 !.request =
                   [search_depth |-> IF depth = "" THEN "basic" ELSE depth,
                    include_answer |-> includeAnswer # "false",
                    max_results |->
                      Min({Max({IF maxResults = 0 THEN 5 ELSE maxResults, 1}),
                           20})]]
  /\ UNCHANGED <<pc, exit, reqVars, aborted, netVars, genVars, response,
                 error, resVars, atAbort, rt, embed, count, adapter, streams,
                 second>>

\* The caller aborts the signal while execute is under way.
TavilyAbort ==
  /\ tavily.pc \in {"fetch", "text", "json"}
  /\ ~tavily.aborted
  /\ tavily' = [tavily EXCEPT !.aborted = TRUE]
  /\ UNCHANGED <<pc, exit, reqVars, aborted, netVars, genVars, response,
                 error, resVars, atAbort, rt, embed, count, adapter, streams,
                 second>>

\* fetch resolves: a response that is not ok is read as text, an ok one as
\* JSON.
TavilyResponds(ok) ==
  /\ tavily.pc = "fetch"
  /\ ~tavily.aborted
  /\ tavily' = [tavily EXCEPT !.pc = IF ok THEN "json" ELSE "text"]
  /\ UNCHANGED <<pc, exit, reqVars, aborted, netVars, genVars, response,
                 error, resVars, atAbort, rt, embed, count, adapter, streams,
                 second>>

\* The body has been read.  The text of an error response gives an error
\* result (its inner JSON.parse has its own catch).  The data of an ok
\* response is formatted; data without results or response_time makes the
\* formatting throw a TypeError, which the catch block receives.
TavilyBodyRead(wellFormed) ==
  /\ tavily.pc \in {"text", "json"}
  /\ tavily' = [tavily EXCEPT
       !.pc = "done",
       !.result = IF tavily.pc = "text" THEN ToolResult("Search failed", TRUE)
                  ELSE IF wellFormed THEN ToolResult("Found", FALSE)
                  ELSE CatchResult(tavily.aborted)]
  /\ UNCHANGED <<pc, exit, reqVars, aborted, netVars, genVars, response,
                 error, resVars, atAbort, rt, embed, count, adapter, streams,
                 second>>

\* An await rejects: fetch (network failure, or the signal), or the read of
\* the body.
TavilyRejects ==
  /\ tavily.pc \in {"fetch", "text", "json"}
  /\ tavily' = [tavily EXCEPT !.pc = "done",
                                !.result = CatchResult(tavily.aborted)]
  /\ UNCHANGED <<pc, exit, reqVars, aborted, netVars, genVars, response,
                 error, resVars, atAbort, rt, embed, count, adapter, streams,
                 second>>

NextTavily ==
  \/ \E apiKey \in BOOLEAN, signalAborted \in BOOLEAN,
        depth \in {"", "basic", "advanced"},
        includeAnswer \in {"", "true", "false"},
        maxResults \in {-1, 0, 1, 5, 20, 21} :
       Execute(apiKey, signalAborted, depth, includeAnswer, maxResults)
  \/ TavilyAbort
  \/ \E ok \in BOOLEAN : TavilyResponds(ok)
  \/ \E wellFormed \in BOOLEAN : TavilyBodyRead(wellFormed)
  \/ TavilyRejects

SpecTavily == Init /\ [][NextTavily]_vars

\* ------------------------------------------------------------ the converter
\* The message converter on a bare string and on every conversation of
\* Conversations.
NextConvert ==
  /\ pc = "idle"
  /\ \/ \E si \in SystemInstructions, tools \in ToolConfigs :
          GenerateContent(Request(si, StringContents(<<"x">>), tools))
     \/ \E si \in SystemInstructions, turns \in Conversations,
           tools \in ToolConfigs :
          GenerateContent(Request(si, ListContents(turns), tools))

SpecConvert == Init /\ [][NextConvert]_vars

\* --------------------------------------------------------------- round trip
\* A functionCall part of a turn of the history, flattened by partsToText and
\* read back by parseToolCall.
runVars ==
  <<pc, exit, request, messages, aborted, answer, wire, written, closed,
    backendText, buffer, lines, stage, accumulatedText, parseCalls, out,
    response, error, readerAcquired, releases, atAbort, embed, opVars>>

InitRoundTrip ==
  /\ Idle
  /\ rt \in {[step |-> "part", part |-> CallPart(n, a), tools |-> <<GroupAB>>,
              flat |-> <<>>, got |-> NoCall] :
               n \in {"a", "b"}, a \in ArgMappings}

Flatten ==
  /\ rt.step = "part"
  /\ rt' = [rt EXCEPT !.step = "text", !.flat = partsToText(<<rt.part>>)]
  /\ UNCHANGED runVars

Extract ==
  /\ rt.step = "text"
  /\ rt' = [rt EXCEPT !.step = "call",
                      !.got = parseToolCall(rt.flat, rt.tools)]
  /\ UNCHANGED runVars

NextRoundTrip == Flatten \/ Extract

SpecRoundTrip == InitRoundTrip /\ [][NextRoundTrip]_vars

\* ---------------------------------------------------------------- extractor
\* parseToolCall, and the single-shot adapter after it, on texts a model can
\* answer with: a tool call bare, inside prose or inside a fence, and texts
\* that hold no well-formed call.
InProse(t) == <<"x", "s">> \o t \o <<"s", "x">>

FencedBare(t) == <<"F">> \o t \o <<"F">>

Forms == {"bare", "prose", "fenced", "fencedBare"}

Wrap(form, t) ==
  IF form = "bare" THEN t
  ELSE IF form = "prose" THEN InProse(t)
  ELSE IF form = "fenced" THEN Fenced(t)
  ELSE FencedBare(t)

\* Texts with no JSON candidate: no fenced object and no "tool_call".
NoCandidateTexts ==
  {<<>>, <<"x">>, <<"{", "}">>, <<"x", "{", "x", "}">>, <<"F", "x", "F">>}

\* Texts whose braces after "tool_call" never balance, or with no brace
\* before it.
UnbalancedTexts ==
  {CallHead,
   <<"{", "T", ":", "{", "N", ":", "q", "a", "q", "}">>,
   <<"T", ":", "{", "}">>,
   <<"x", "s", "{", "T", ":", "{", "{", "}">>}

\* Texts whose candidate is no JSON.
ParseErrorTexts ==
  {<<"{", "T", ":", "}">>,
   <<"{", "T", "}">>,
   <<"{", "T", ":", "{", "N", ":", "q", "a", "}", "}">>,
   Fenced(<<"{", "x", "}">>),
   Fenced(<<"{", "T", ":", "{", "N", ":", "}", "}">>)}

\* Another JSON object: {"k": {"name": "a"}}.
OtherObject ==
  <<"{", "q", "k", "q", ":", "{", "N", ":", "q", "a", "q", "}", "}">>

\* Texts whose candidate parses but has no tool_call with a name.
NoNameTexts ==
  {<<"{", "T", ":", "{", "}", "}">>,
   <<"{", "T", ":", "{", "A", ":", "{", "}", "}", "}">>,
   <<"{", "T", ":", "{", "N", ":", "q", "q", "}", "}">>,
   <<"{", "T", ":", "q", "x", "q", "}">>,
   <<"{", "T", ":", "q", "q", "}">>,
   Fenced(<<"{", "T", ":", "{", "}", "}">>),
   Fenced(<<"{", "q", "k", "q", ":", "q", "x", "q", "}">>),
   Fenced(OtherObject)}

\* A tool call whose key is spelled with an escape.
EscapedCall == <<"{", "E", ":", "{", "N", ":", "q", "a", "q", "}", "}">>

\* Texts with a fenced block and an unfenced call outside it; "L" is an info
\* string other than json after the opening fence, such as js or JSON.
OrderTexts ==
  {Fenced(OtherObject) \o <<"s">> \o CallText("a", NoValue),
   CallText("a", NoValue) \o <<"s">> \o Fenced(OtherObject),
   FencedBare(CallText("g", NoValue)) \o <<"s">> \o CallText("a", NoValue),
   Fenced(CallText("a", NoValue)) \o <<"s">> \o CallText("b", NoValue),
   <<"F", "L", "s">> \o OtherObject \o <<"s", "F", "s">>
     \o CallText("a", NoValue),
   <<"F", "L", "s">> \o CallText("b", NoValue) \o <<"s", "F", "s">>
     \o CallText("a", NoValue)}

RawTexts ==
  NoCandidateTexts \cup UnbalancedTexts \cup ParseErrorTexts \cup NoNameTexts
    \cup ModelTexts \cup {EscapedCall, Fenced(EscapedCall), InProse(EscapedCall)}
    \cup OrderTexts

\* The texts built around a call, with the call kept as rt.part.
CallTexts ==
  {[part |-> CallPart(n, a), flat |-> Wrap(form, CallText(n, a))] :
     n \in {"a", "b", "g"}, a \in ArgMappings, form \in Forms}

ExtractTools == ToolConfigs \cup {<<GroupAB>>}

InitExtract ==
  /\ Idle
  /\ \/ \E c \in CallTexts, tools \in ExtractTools :
          rt = [step |-> "text", part |-> c.part, tools |-> tools,
                flat |-> c.flat, got |-> NoCall]
     \/ \E t \in RawTexts, tools \in ExtractTools :
          rt = [step |-> "text", part |-> TextPart(<<>>), tools |-> tools,
                flat |-> t, got |-> NoCall]

\* convertToGeminiResponse on the text, as the caller of parseToolCall.
ConvertResponse ==
  /\ rt.step = "call"
  /\ response = NoResponse
  /\ rt' = [rt EXCEPT !.step = "response"]
  /\ response' = convertToGeminiResponse(Completion(rt.flat, "stop"), rt.tools)
  /\ UNCHANGED <<pc, exit, request, messages, aborted, answer, wire, written,
                 closed, backendText, buffer, lines, stage, accumulatedText,
                 parseCalls, out, error, readerAcquired, releases, atAbort,
                 embed, opVars>>

NextExtract == Extract \/ ConvertResponse

SpecExtract == InitExtract /\ [][NextExtract]_vars

\* ---------------------------------------------------------------- properties
\* The text of the text increments among some partial responses.
TextIncrements(evs) ==
  Concat([i \in 1..Len(evs) |->
            IF evs[i].kind = "text" THEN evs[i].text ELSE <<>>])

\* The positions of the functionCall events among some partial responses.
CallEvents(evs) == {i \in 1..Len(evs) : evs[i].kind = "functionCall"}

\* The tool call a text holds, whatever the tools of the request.
CallIn(text) == parseToolCall(text, <<>>)

\* C1: when the generated text holds a tool call whose name is not among the
\* tools the request declares (the tool set may be empty, the first group's
\* declaration list may be missing), the response has no functionCall part:
\* it is a text part with the raw generated text.
C1_UndeclaredCallIsText ==
  (/\ pc = "done"
   /\ exit = "value"
   /\ CallIn(backendText) # NoCall
   /\ CallIn(backendText).name \notin DeclaredNames(request.tools))
    => (response.kind = "text" /\ response.text = backendText)

\* C2: when the text accumulated by the end of a stream holds a valid call of
\* a declared tool, the stream has exactly one functionCall event, and it is
\* the last event, after the last text increment.
C2_OneCallEventLast ==
  (/\ pc = "done"
   /\ exit = "eof"
   /\ HasTools(request.tools)
   /\ parseToolCall(accumulatedText, request.tools) # NoCall
   /\ parseToolCall(accumulatedText, request.tools).name
        \in DeclaredNames(request.tools))
    => (/\ Cardinality(CallEvents(out)) = 1
        /\ out[Len(out)].kind = "functionCall")

\* C3: the text increments of a stream that ran to its end, concatenated in
\* order, are the content the backend generated (what a single-shot call
\* returns as its content).
C3_IncrementsAreContent ==
  (pc = "done" /\ exit = "eof") => TextIncrements(out) = backendText

\* The argument mapping of a functionCall part; an absent one is the empty one.
ArgsOf(part) == IF part.args = NoValue THEN <<"{", "}">> ELSE part.args

\* C4: a functionCall part that names a declared tool, flattened to text by
\* the converter and read back by the extractor, gives a tool call with the
\* same name and an equal argument mapping.
C4_RoundTrip ==
  rt.step = "call"
    => (rt.got.name = Quote(rt.part.name) /\ rt.got.args = ArgsOf(rt.part))

\* C5: for a request that declares no tools the extractor is never invoked,
\* and no response or partial response is a functionCall.
C5_NoToolsTextOnly ==
  DeclaredNames(request.tools) = {}
    => (/\ parseCalls = 0
        /\ response.kind # "functionCall"
        /\ CallEvents(out) = {})

\* C6: the stream reader is released exactly once however the streaming
\* operation exits (end of stream, read error, abort, the consumer ending
\* the iteration early), and never while the operation is running.
C6_ReaderReleasedOnce ==
  /\ releases <= 1
  /\ (pc = "done" /\ readerAcquired) => releases = 1
  /\ (pc # "done" \/ ~readerAcquired) => releases = 0

\* C6 witness: the consumer ended the iteration at a yield, and the reader
\* it left behind was released.
C6_Witness ==
  pc = "done" /\ exit = "return" /\ readerAcquired /\ releases = 1 /\ out # <<>>

\* C7: once the abort signal has fired, no further partial response is
\* yielded, whatever the network had already delivered.
C7_NoYieldAfterAbort == aborted => Len(out) = atAbort

\* Frames of the body that the loop has not started on: the lines of the
\* current chunk after the current one, and the frames still in the buffer
\* or on the wire.
IsPayload(sym) == sym.k \in {"json", "done", "bad", "comment"}

Pending ==
  (IF lines = <<>> THEN 0 ELSE Len(lines) - 1)
    + Cardinality({i \in 1..Len(buffer \o wire) : IsPayload((buffer \o wire)[i])})

Processed == SubSeq(written, 1, Len(written) - Pending)

\* C8: a frame whose payload is no valid JSON is skipped: every frame the
\* loop has gone through has contributed exactly its content to the
\* accumulated text and to the text increments, a malformed frame nothing,
\* and the frames after a malformed one are gone through like any other.
C8_MalformedFrameSkipped ==
  /\ accumulatedText = Concat([i \in 1..Len(Processed) |-> Processed[i].content])
  /\ TextIncrements(out) = accumulatedText
  /\ error.kind \in {"none", "http", "nobody", "abort", "network"}

\* C8 witness: a well-formed frame after a malformed one has been yielded.
C8_Witness ==
  /\ Len(Processed) = 2
  /\ Processed[1] = BadPayload
  /\ Processed[2].content = <<"x">>
  /\ out # <<>>
  /\ out[Len(out)].text = <<"x">>

\* C9: a backend answer with a status outside 2xx makes the request fail with
\* an error that carries the status and the body text, before any partial
\* response is yielded and before the stream reader is acquired.
C9_HttpErrorFirst ==
  (answer.status # 0 /\ answer.status \notin 200..299)
    => (/\ pc = "done"
        /\ exit = "throw"
        /\ error.kind = "http"
        /\ error.status = answer.status
        /\ error.body = answer.body
        /\ response = NoResponse
        /\ out = <<>>
        /\ ~readerAcquired
        /\ releases = 0)

\* C9 witness: the backend answered 500 with a body, and the request failed.
C9_Witness ==
  /\ answer = [status |-> 500, body |-> <<"x">>, finish |-> "none"]
  /\ error.kind = "http"
  /\ pc = "done"

\* The messages with role system in the message list of the request.
SystemMessages == {i \in 1..Len(messages) : messages[i].role = "system"}

\* C10 as stated: the message list of every request has exactly one system
\* message, and it is the first element.
C10_ExactlyOneSystemMessage ==
  pc = "fetch" => SystemMessages = {1}

\* C10 amended: the message list has at most one system message, a system
\* message is the first element, and there is one whenever the system
\* instruction has text.
C10_AtMostOneSystemMessageFirst ==
  pc = "fetch"
    => (/\ SystemMessages \subseteq {1}
        /\ SystemText(request.systemInstruction) # <<>> => SystemMessages = {1})

\* C10 witness: a conversation of two turns with a system instruction.
C10_Witness ==
  /\ pc = "fetch"
  /\ SystemText(request.systemInstruction) # <<>>
  /\ Len(messages) = 3
  /\ SystemMessages = {1}

\* text holds sub as a contiguous run of symbols.
Contains(text, sub) ==
  \E i \in 1..(Len(text) - Len(sub) + 1) : SubSeq(text, i, i + Len(sub) - 1) = sub

\* The names of the tools the request declares, in any tool group.
DeclaredTools(tools) ==
  UNION {{tools[g].names[i] : i \in 1..Len(tools[g].names)} :
           g \in {h \in 1..Len(tools) : tools[h].key /\ tools[h].defined}}

\* C11: when the request declares a tool (with or without a system
\* instruction, in whichever tool group), the first message is a system
\* message that holds the protocol block and the rendering of every declared
\* tool; when it declares none, the system text is passed through unchanged.
C11_ToolInstructionsSent ==
  pc = "fetch"
    => /\ DeclaredTools(request.tools) # {}
            => /\ SystemMessages = {1}
               /\ Contains(messages[1].content, <<"P">>)
               /\ \A n \in DeclaredTools(request.tools) :
                    Contains(messages[1].content, ToolDescription(n))
       /\ (DeclaredTools(request.tools) = {}
             /\ SystemText(request.systemInstruction) # <<>>)
            => messages[1] = Message("system", SystemText(request.systemInstruction))

\* C12: a single-shot response is one candidate with one part, a functionCall
\* part or a text part and never both: with a tool call extracted, none of
\* the backend text is returned next to it; otherwise the part is the text.
C12_OnePartCallOrText ==
  (pc = "done" /\ exit = "value")
    => /\ response.kind \in {"text", "functionCall"}
       /\ response.kind = "functionCall"
            => (response.call # NoCall /\ response.text = <<>>)
       /\ response.kind = "text"
            => (response.call = NoCall /\ response.text = backendText)

\* C12 witness: the backend text is a tool call inside prose, and the
\* response is the functionCall part alone.
C12_Witness ==
  /\ pc = "done"
  /\ exit = "value"
  /\ backendText = <<"x", "s">> \o CallText("a", NoValue) \o <<"s", "x">>
  /\ response.kind = "functionCall"
  /\ response.text = <<>>

\* Texts that hold no well-formed tool call.
MalformedTexts ==
  NoCandidateTexts \cup UnbalancedTexts \cup ParseErrorTexts \cup NoNameTexts

\* C13: the extractor never raises: a text with no candidate, with braces that
\* never balance, with a candidate that is no JSON or with no tool_call.name
\* gives the result none, whatever the tools, and the caller then returns the
\* model output as plain text.
C13_MalformedGivesNone ==
  (rt.flat \in MalformedTexts /\ rt.step \in {"call", "response"})
    => /\ rt.got = NoCall
       /\ rt.step = "response"
            => (response.kind = "text" /\ response.text = rt.flat)

\* C13 witness: a candidate that is no JSON, with a tool declared, has become
\* a text response.
C13_Witness ==
  /\ rt.step = "response"
  /\ rt.flat = <<"{", "T", ":", "{", "N", ":", "q", "a", "}", "}">>
  /\ rt.tools = <<GroupA>>
  /\ response.kind = "text"

\* C14 as stated: a text that does not hold the literal key "tool_call" gives
\* the result none.
C14_NoLiteralKeyGivesNone ==
  (rt.step \in {"call", "response"} /\ ~Contains(rt.flat, <<"T">>))
    => rt.got = NoCall

\* C14 amended: a text that holds the key "tool_call" neither literally nor
\* in an escaped spelling gives the result none, also when it holds a fenced
\* code block with some other JSON object.
C14_NoKeyGivesNone ==
  (/\ rt.step \in {"call", "response"}
   /\ ~Contains(rt.flat, <<"T">>)
   /\ ~Contains(rt.flat, <<"E">>))
    => rt.got = NoCall

\* C14 witness: a fenced block with another JSON object has given none.
C14_Witness ==
  /\ rt.step = "call"
  /\ rt.flat = Fenced(OtherObject)
  /\ rt.tools = <<GroupA>>
  /\ rt.got = NoCall

\* The call a text of CallTexts was built around.
CallOfPart(part) == [name |-> Quote(part.name), args |-> ArgsOf(part)]

\* C15: for an unfenced text that holds a tool-call object inside prose, the
\* balanced-brace scan isolates exactly that object, whatever its arguments
\* nest, and the call of a declared tool is extracted from it; when the
\* braces never balance, no span is taken and the result is none.
C15_BraceScanIsolatesObject ==
  /\ (/\ rt.step \in {"call", "response"}
      /\ rt.part.kind = "functionCall"
      /\ rt.part.name \in {"a", "b"}
      /\ rt.tools = <<GroupAB>>
      /\ rt.flat = InProse(CallText(rt.part.name, rt.part.args)))
       => (/\ BraceScan(rt.flat) = CallText(rt.part.name, rt.part.args)
           /\ rt.got = CallOfPart(rt.part))
  /\ (rt.step \in {"call", "response"} /\ rt.flat \in UnbalancedTexts)
       => (BraceScan(rt.flat) = <<>> /\ rt.got = NoCall)

\* C16: a text that is a fenced JSON block with a well-formed tool call of a
\* declared tool gives a call with exactly that name and those arguments, the
\* empty mapping when the object has no arguments.
C16_FencedCallExtracted ==
  (/\ rt.step \in {"call", "response"}
   /\ rt.part.kind = "functionCall"
   /\ rt.part.name \in {"a", "b"}
   /\ rt.tools = <<GroupAB>>
   /\ rt.flat \in {Fenced(CallText(rt.part.name, rt.part.args)),
                   FencedBare(CallText(rt.part.name, rt.part.args))})
    => rt.got = CallOfPart(rt.part)

\* The turns of the request, as the converter sees them.
TurnsOf(req) ==
  IF req.contents.form = "string"
    THEN <<[role |-> "user", parts |-> <<TextPart(req.contents.text)>>]>>
    ELSE req.contents.turns

\* The flattened text of a turn, part by part.
RECURSIVE FlatText(_)
FlatText(parts) ==
  IF parts = <<>> THEN <<>>
  ELSE (IF Head(parts).kind = "text" THEN Head(parts).text
        ELSE IF Head(parts).kind = "functionCall"
          THEN <<"s">> \o JSONStringify2(ToolCallJson(Head(parts).name, Head(parts).args)) \o <<"s">>
        ELSE IF Head(parts).kind = "functionResponse"
          THEN <<"s", "R", "s">> \o Head(parts).text \o <<"s">>
        ELSE IF Head(parts).kind = "inlineData" THEN <<"I">>
        ELSE <<"U">>) \o FlatText(Tail(parts))

\* The messages after the system message.
HistoryOf(msgs) ==
  IF msgs # <<>> /\ msgs[1].role = "system" THEN Tail(msgs) ELSE msgs

\* The turns with text, as (role, text) pairs in turn order.
RECURSIVE KeptTurns(_)
KeptTurns(turns) ==
  IF turns = <<>> THEN <<>>
  ELSE (IF FlatText(Head(turns).parts) = <<>> THEN <<>>
        ELSE <<[role |-> IF Head(turns).role = "model" THEN "assistant" ELSE "user",
                content |-> FlatText(Head(turns).parts)]>>)
         \o KeptTurns(Tail(turns))

\* C17: the messages after the system message are exactly the turns whose
\* flattened content is not empty, in turn order, with role assistant for a
\* model turn and user for a user turn; no message has empty content.
C17_HistoryIsNonEmptyTurns ==
  pc = "fetch"
    => /\ HistoryOf(messages) = KeptTurns(TurnsOf(request))
       /\ \A i \in 1..Len(messages) : messages[i].content # <<>>

\* C17 witness: of two turns, the model turn is kept as assistant and the
\* empty user turn is dropped.
C17_Witness ==
  /\ pc = "fetch"
  /\ request.contents.form = "list"
  /\ Len(request.contents.turns) = 2
  /\ request.contents.turns[1].role = "model"
  /\ request.contents.turns[2].parts = <<TextPart(<<>>)>>
  /\ messages = <<Message("assistant", <<"x">>)>>

\* The stop reason a response has for a backend finish_reason.
StopReasonFor(finish) ==
  IF finish = "null" THEN "none"
  ELSE IF finish = "length" THEN "MAX_TOKENS"
  ELSE "STOP"

\* The frames with delta content among the frames gone through or under
\* way, and the text events: the k-th text event is of the k-th such frame.
FramesWithText ==
  SelectSeq(written, LAMBDA f : f.k = "json" /\ f.content # <<>>)

TextEvents == SelectSeq(out, LAMBDA ev : ev.kind = "text")

\* C18: the stop reason of a single-shot response, and of a streamed text
\* event whose chunk has a finish_reason, is MAX_TOKENS exactly when the
\* backend's is 'length' and STOP for every other value; a text event whose
\* chunk has a null finish_reason has no stop reason.
C18_StopReasonMapped ==
  /\ (pc = "done" /\ exit = "value")
       => response.finishReason = StopReasonFor(answer.finish)
  /\ \A k \in 1..Len(TextEvents) :
       TextEvents[k].finishReason = StopReasonFor(FramesWithText[k].finish)

\* C18 witness: a text event of a chunk cut off by the length limit.
C18_Witness ==
  /\ Len(TextEvents) = 2
  /\ FramesWithText[1].finish = "null"
  /\ TextEvents[1].finishReason = "none"
  /\ FramesWithText[2].finish = "length"
  /\ TextEvents[2].finishReason = "MAX_TOKENS"

\* C19: the usage block of a single-shot response holds the token counts the
\* backend reported; the usage block of a streamed functionCall event holds
\* estimates derived from the request and the accumulated output, which are
\* not zero for a request and an output that are not empty (the event being
\* the call of a declared tool).
C19_UsageReportedOrEstimated ==
  /\ (pc = "done" /\ exit = "value")
       => response.usage = Usage(3, 2, 5)
  /\ \A i \in {j \in CallEvents(out) :
                out[j].call.name \in DeclaredNames(request.tools)} :
       /\ out[i].usage.present
       /\ out[i].usage.prompt > 0
       /\ out[i].usage.completion > 0
       /\ out[i].usage.total = out[i].usage.prompt + out[i].usage.completion

\* C20: every call of embedContent fails, at once and whatever the input,
\* without a network call, whatever the adapter has done before.
C20_EmbedAlwaysFails ==
  embed.calls > 0 => (embed.result = "throw" /\ ~embed.fetched)

\* C20 witness: embedContent has failed twice on an adapter whose
\* generateContent has returned a response.
C20_Witness ==
  /\ embed.calls = 2
  /\ embed.result = "throw"
  /\ pc = "done"
  /\ exit = "value"


\* The flattened text of all parts of all turns of a countTokens request.
CountedText(c) ==
  LET cs == normalizeContents(c.contents)
  IN partsToText(Concat([i \in 1..Len(cs) |-> cs[i].parts]))

\* The characters of a text: a character outside the basic plane is one
\* character; the render atoms have the lengths of their strings.
Characters(t) ==
  TextLength([i \in 1..Len(t) |-> IF t[i] = "W" THEN "x" ELSE t[i]])

\* C21: the token estimate is ceil(L / 4) for the character length L of the
\* flattened text of all parts of all turns (40 characters give 10, empty
\* content gives 0), and of two estimates the one for the longer text is not
\* the smaller one.
C21_EstimateIsCeilOfLength ==
  /\ count.last.called
       => count.last.totalTokens = Ceil4(Characters(CountedText(count.last)))
  /\ (count.last.called /\ count.prev.called
        /\ Characters(CountedText(count.prev))
             <= Characters(CountedText(count.last)))
       => count.prev.totalTokens <= count.last.totalTokens

\* The same statement with the length in UTF-16 code units (String.length).
C21_EstimateIsCeilOfCodeUnits ==
  /\ count.last.called
       => count.last.totalTokens = Ceil4(TextLength(CountedText(count.last)))
  /\ (count.last.called /\ count.prev.called
        /\ TextLength(CountedText(count.prev))
             <= TextLength(CountedText(count.last)))
       => count.prev.totalTokens <= count.last.totalTokens

\* The literal cases of C21: the prompt of forty characters and the empty text.
C21_LiteralCases ==
  /\ (count.last.called
        /\ count.last.contents = StringContents([i \in 1..40 |-> "x"]))
       => count.last.totalTokens = 10
  /\ (count.last.called /\ count.last.contents = StringContents(<<>>))
       => count.last.totalTokens = 0


\* The events a generator yields for the lines ls when it runs on its own
\* from the given suspension until the lines are used up.
RECURSIVE Drain(_, _, _, _, _)
Drain(ls, st, acc, calls, tools) ==
  LET r == RunLines(ls, st, acc, calls, tools)
  IN IF r.yielded THEN <<r.ev>> \o Drain(r.lines, r.stage, r.acc, r.calls, tools)
     ELSE <<>>

\* The events of a request run alone on a body with the given bytes.
EventsAlone(bytes, tools) ==
  LET all == Split(bytes)
  IN Drain(SubSeq(all, 1, Len(all) - 1), "line", <<>>, 0, tools)

IsPrefix(a, b) == Len(a) <= Len(b) /\ SubSeq(b, 1, Len(a)) = a

\* C22: two streaming requests under way on one adapter do not interfere:
\* under every interleaving of chunk arrivals and pulls each yields the events
\* it yields when run alone, and the adapter's fields are never written.
C22_StreamsDoNotInterfere ==
  /\ adapter = [baseUrl |-> "http://localhost:11434", model |-> "m"]
  /\ \A i \in 1..2 :
       /\ IsPrefix(streams[i].out,
                   EventsAlone(streams[i].sent, streams[i].tools))
       /\ streams[i].pc = "done"
            => streams[i].out = EventsAlone(streams[i].sent, streams[i].tools)

\* C22 witness: stream 1 holds half a frame in its line buffer and the first
\* half of a tool call in its accumulated text while stream 2, which declared
\* the tool, has yielded its functionCall event.
C22_Witness ==
  /\ streams[1].buffer # <<>>
  /\ streams[1].accumulatedText = CallHead
  /\ streams[1].pc = "reading"
  /\ streams[2].pc = "yielded"
  /\ Len(streams[2].out) = 3
  /\ streams[2].out[3].kind = "functionCall"


\* C23: constructed alike and given the same request without declared tools,
\* the two variants send the same messages and end alike: both with a
\* response or both with a failure, in single-shot and in streaming mode
\* (the strict variant's stream having been sent or having failed).
C23_VariantsAgree ==
  (second.pc = "done" /\ pc \in {"fetch", "sfetch", "reading", "yielded", "done"})
    => /\ second.messages = messages
       /\ pc = "done" => ((second.exit = "throw") <=> (exit = "throw"))


\* C24: without TAVILY_API_KEY execute returns the key error (an error
\* member of type EXECUTION_FAILED) with no network call; execute never
\* raises; and a failure caught while the signal is aborted gives the
\* cancelled result, which has no error member.
C24_TavilyNeverRaises ==
  /\ tavily.result.display # "raised"
  /\ tavily.pc = "done" => tavily.result.display # "none"
  /\ (tavily.pc = "done" /\ ~tavily.apiKey)
       => /\ tavily.result = ToolResult("Tavily API key not configured", TRUE)
          /\ tavily.fetches = 0
  /\ tavily.aborted => tavily.result.display # "Search error"
  /\ tavily.result.display = "Search cancelled"
       => (tavily.aborted /\ ~tavily.result.error)

\* C24 witness: the key is set, the signal fired while the search was under
\* way, and execute returned the cancelled result.
C24_Witness ==
  /\ tavily.pc = "done"
  /\ tavily.apiKey
  /\ tavily.aborted
  /\ tavily.fetches = 1
  /\ tavily.result = ToolResult("Search cancelled", FALSE)

\* C24 witness of the missing key: execute has returned the key error.
C24_WitnessNoKey ==
  /\ tavily.pc = "done"
  /\ ~tavily.apiKey
  /\ tavily.result.error


\* The contents of the first fenced code block of a text, without the info
\* string of its opening fence; empty when the text has no fenced block.
FirstBlockContent(t) ==
  LET Fs == {i \in 1..Len(t) : t[i] = "F"}
  IN IF Cardinality(Fs) < 2 THEN <<>>
     ELSE LET i == Min(Fs)
              j == Min(Fs \ {i})
              from == IF i + 1 < j /\ t[i + 1] \in {"J", "L"} THEN i + 2 ELSE i + 1
          IN SubSeq(t, from, j - 1)

\* The first fenced block holds a JSON object.
HasFencedObject(t) ==
  LET c == StripFrom(FirstBlockContent(t), 1, FALSE)
  IN c # <<>> /\ c[1] = "{" /\ ParseStripped(c).ok

\* C25: first match wins: when the text has a fenced code block holding a
\* JSON object, the result is the one that block's contents give, whatever
\* unfenced "tool_call" object stands before or after it.
C25_FencedBlockDecides ==
  (rt.step \in {"call", "response"} /\ HasFencedObject(rt.flat))
    => rt.got = CallOfJsonText(FirstBlockContent(rt.flat), rt.tools)

\* The same statement for the blocks the pattern of line 293 knows: opened by
\* a bare fence or by a fence with the info string json.
C25_PlainOrJsonBlockDecides ==
  (rt.step \in {"call", "response"} /\ HasFencedObject(rt.flat)
     /\ ~\E i \in 1..Len(rt.flat) : rt.flat[i] = "L")
    => rt.got = CallOfJsonText(FirstBlockContent(rt.flat), rt.tools)


\* The lines of the frames fs, each ended by its newline.
LinesOf(fs) ==
  [i \in 1..Len(fs) |->
     IF fs[i].k = "comment" THEN <<fs[i]>> ELSE <<DataPrefix, fs[i]>>]

\* C26: the frame data: [DONE] ends the event sequence: once the loop has
\* gone through it, the partial responses are those of the frames before
\* it, whatever data frames arrive after it.
C26_DoneTerminates ==
  \A d \in 1..Len(Processed) :
    Processed[d] = DonePayload
      => IsPrefix(out, Drain(LinesOf(SubSeq(written, 1, d - 1)), "line",
                             <<>>, 0, request.tools))

\* The frames before the first [DONE] are gone through as C26 says: up to
\* that frame the partial responses are those of the frames written.
C26_EventsUpToDone ==
  (\A d \in 1..Len(Processed) : Processed[d] # DonePayload)
    => IsPrefix(out, Drain(LinesOf(written), "line", <<>>, 0, request.tools))


\* C27: the events depend on the bytes of the body only, not on how the
\* transport cuts them into chunks: under every splitting the events yielded
\* so far are a prefix of the events of the frames written taken as one
\* chunk, at the end of a body whose frames all end in a newline they are
\* those events, and every frame has been gone through exactly once.
C27_SplitIndependent ==
  /\ IsPrefix(out, Drain(LinesOf(written), "line", <<>>, 0, request.tools))
  /\ (pc = "done" /\ exit = "eof" /\ buffer = <<>>)
       => /\ out = Drain(LinesOf(written), "line", <<>>, 0, request.tools)
          /\ accumulatedText
               = Concat([i \in 1..Len(written) |-> written[i].content])

\* C27 witness: the first frame came in one chunk and its text was yielded;
\* the second frame, the end of a tool call, came cut after "data: ", and
\* the stream ended with the functionCall event.
C27_Witness ==
  /\ pc = "done"
  /\ exit = "eof"
  /\ buffer = <<>>
  /\ written = <<ChunkPayload(CallHead, "null"), ChunkPayload(CallTail, "stop")>>
  /\ Len(out) = 3
  /\ out[3].kind = "functionCall"

\* C27 witness of a cut inside a frame: the loop holds "data: " of the second
\* frame in its buffer, the payload is still on the wire.
C27_WitnessCut ==
  /\ pc = "reading"
  /\ buffer = <<DataPrefix>>
  /\ wire # <<>>
  /\ Len(out) = 1

\* C28: every frame the transport delivered before the end of the body has
\* been gone through when the stream ends, the last one also when no newline
\* follows it: the events are those of all the frames written.
C28_AllFramesProcessed ==
  (pc = "done" /\ exit = "eof")
    => /\ out = Drain(LinesOf(written), "line", <<>>, 0, request.tools)
       /\ Pending = 0

\* C29: at every point the accumulated text is the concatenation of the text
\* increments yielded so far, and the text events are those of the chunk
\* frames with content gone through: a line that is no data line, [DONE],
\* a chunk with empty content and a malformed frame add nothing.
C29_AccumulatedIsYielded ==
  /\ accumulatedText = TextIncrements(out)
  /\ Len(TextEvents)
       = Len(SelectSeq(Processed, LAMBDA f : f.k = "json" /\ f.content # <<>>))
  /\ \A k \in 1..Len(TextEvents) : TextEvents[k].text = FramesWithText[k].content

\* C29 witness: after the text of one frame, [DONE] has been gone through
\* and has left the accumulated text as it was.
C29_Witness ==
  /\ pc = "reading"
  /\ Processed = <<ChunkPayload(<<"x">>, "null"), DonePayload>>
  /\ accumulatedText = <<"x">>
  /\ Len(out) = 1


\* C30: for a finite body and a consumer that keeps pulling the generator
\* completes: a stream that is reading or suspended at a yield ends, the
\* reader it acquired is then released, and it has yielded at most one text
\* event per frame and at most one functionCall event per frame with a stop
\* reason.
C30_StreamCompletes ==
  /\ [](/\ Len(TextEvents) <= Len(SelectSeq(written, LAMBDA f : f.k = "json"))
        /\ Cardinality(CallEvents(out))
             <= Len(SelectSeq(written, LAMBDA f : f.finish # "null"))
        /\ (pc = "done" /\ readerAcquired) => releases = 1)
  /\ (pc \in {"reading", "yielded"}) ~> (pc = "done")

\* C30 witness: a body of two frames was read to its end by a consumer that
\* pulled after each of the three events, and the reader was released.
C30_Witness ==
  /\ pc = "done"
  /\ exit = "eof"
  /\ Len(written) = 2
  /\ Len(out) = 3
  /\ releases = 1

=============================================================================
